---- MODULE Spec2Model ----
(***************************************************************************)
(* A model of the restcountries gateway (src/main.py): the three HTTP      *)
(* handlers, the helper functions they call, the upstream services they    *)
(* talk to and the public/ directory the flag handler writes.              *)
(***************************************************************************)
EXTENDS Integers, Sequences, FiniteSets, TLC

VARIABLES
    req,    \* the requests: kind, path parameter, progress and response
    cur,    \* the request whose handler ran last (0: none yet)
    pc,     \* where that handler stands; "idle" when the event loop is free
    loc,    \* the local variables of the running handler
    calls,  \* the outbound HTTP calls of that handler, in order
    files,  \* the public/ directory: path -> image
    saves   \* every save so far, in order: request, path, source, image

vars == <<req, cur, pc, loc, calls, files, saves>>

(***************************************************************************)
(* Python floats are IEEE-754 binary64.  TLC's integers are 32 bits wide,  *)
(* so a float is kept as its 53 significand bits (most significant first) *)
(* and the exponent of the last bit: value = Int(m) * 2^e.                 *)
(***************************************************************************)
MantBits == 53

\* The significand is handled 13 bits at a time below its leading bit
\* (53 = 1 + 4 * 13), which keeps every intermediate value under 2^31.
LimbBits == 13

Pow2Table ==
    <<1, 2, 4, 8, 16, 32, 64, 128, 256, 512, 1024, 2048, 4096, 8192, 16384,
      32768, 65536, 131072, 262144, 524288, 1048576, 2097152, 4194304,
      8388608, 16777216, 33554432, 67108864, 134217728, 268435456,
      536870912, 1073741824>>

Pow2(n) == Pow2Table[n + 1]

LimbBase == Pow2(LimbBits)

RECURSIVE IntToBits(_)
IntToBits(n) == IF n = 0 THEN <<>> ELSE IntToBits(n \div 2) \o <<n % 2>>

\* The number whose bits are b[from..to], most significant first.
RECURSIVE BitsToInt(_, _, _)
BitsToInt(b, from, to) ==
    IF to < from THEN 0 ELSE 2 * BitsToInt(b, from, to - 1) + b[to]

\* The 13 bits of a limb, most significant first.
LimbToBits(q) == [k \in 1..LimbBits |-> (q \div Pow2(LimbBits - k)) % 2]

\* The n-th limb (1..4) below the leading bit of a 53-bit significand.
LimbOf(m, n) == BitsToInt(m, 2 + LimbBits * (n - 1), 1 + LimbBits * n)

\* The bits of b + 1; one bit longer when every bit of b is 1.
IncBits(b) ==
    LET zeros == {k \in 1..Len(b) : b[k] = 0}
        z     == CHOOSE k \in zeros : \A j \in zeros : j <= k
    IN  IF zeros = {} THEN <<1>> \o [k \in 1..Len(b) |-> 0]
        ELSE [k \in 1..Len(b) |-> IF k < z THEN b[k] ELSE IF k = z THEN 1 ELSE 0]

\* Round-to-nearest, ties-to-even of the 53 bits `kept` (exponent e), given
\* whether the discarded part is above, at or below half of the last place.
RoundNearestEven(kept, e, aboveHalf, exactlyHalf) ==
    LET up  == aboveHalf \/ (exactlyHalf /\ kept[MantBits] = 1)
        inc == IncBits(kept)
    IN  IF ~up THEN [m |-> kept, e |-> e]
        ELSE IF Len(inc) > MantBits
             THEN [m |-> SubSeq(inc, 1, MantBits), e |-> e + 1]
             ELSE [m |-> inc, e |-> e]

\* The least i with a * 2^i >= b.
RECURSIVE ShiftUp(_, _)
ShiftUp(a, b) == IF a >= b THEN 0 ELSE 1 + ShiftUp(2 * a, b)

\* The greatest j with b * 2^j <= a, for a >= b.
RECURSIVE ShiftDown(_, _)
ShiftDown(a, b) == IF 2 * b <= a THEN 1 + ShiftDown(a, 2 * b) ELSE 0

\* a / float(b) for positive integers a and b (below 2^17): the correctly
\* rounded quotient, by long division 13 bits at a time.
FloatDiv(a, b) ==
    LET i  == ShiftUp(a, b)
        a1 == a * Pow2(i)
        j  == ShiftDown(a1, b)
        b1 == b * Pow2(j)
        \* now b1 <= a1 < 2 * b1: the quotient's leading bit is 1
        r0 == a1 - b1
        q1 == (r0 * LimbBase) \div b1
        r1 == (r0 * LimbBase) % b1
        q2 == (r1 * LimbBase) \div b1
        r2 == (r1 * LimbBase) % b1
        q3 == (r2 * LimbBase) \div b1
        r3 == (r2 * LimbBase) % b1
        q4 == (r3 * LimbBase) \div b1
        r4 == (r3 * LimbBase) % b1
        kept == <<1>> \o LimbToBits(q1) \o LimbToBits(q2)
                      \o LimbToBits(q3) \o LimbToBits(q4)
    IN  RoundNearestEven(kept, j - i - (MantBits - 1), 2 * r4 > b1, 2 * r4 = b1)

\* float(h) * f for a positive integer h (below 2^17): the exact product,
\* limb by limb with a carry, rounded once.
FloatMul(h, f) ==
    LET t4 == LimbOf(f.m, 4) * h
        t3 == LimbOf(f.m, 3) * h + t4 \div LimbBase
        t2 == LimbOf(f.m, 2) * h + t3 \div LimbBase
        t1 == LimbOf(f.m, 1) * h + t2 \div LimbBase
        t0 == f.m[1] * h + t1 \div LimbBase
        p  == IntToBits(t0) \o LimbToBits(t1 % LimbBase) \o LimbToBits(t2 % LimbBase)
                            \o LimbToBits(t3 % LimbBase) \o LimbToBits(t4 % LimbBase)
        drop == Len(p) - MantBits
        kept == SubSeq(p, 1, MantBits)
        rest == SubSeq(p, MantBits + 1, Len(p))
        tail == {k \in 2..Len(rest) : rest[k] = 1}
    IN  IF drop = 0 THEN [m |-> kept, e |-> f.e]
        ELSE RoundNearestEven(kept, f.e + drop,
                              rest[1] = 1 /\ tail # {},
                              rest[1] = 1 /\ tail = {})

\* int(f): truncation toward zero of a positive float.
IntTrunc(f) ==
    IF f.e >= 0 THEN BitsToInt(f.m, 1, MantBits) * Pow2(f.e)
    ELSE IF MantBits + f.e <= 0 THEN 0
    ELSE BitsToInt(f.m, 1, MantBits + f.e)

max_width == 250

width_percent(img) == FloatDiv(max_width, img[1])

new_height(img) == IntTrunc(FloatMul(img[2], width_percent(img)))

(***************************************************************************)
(* Bounds of the model.                                                    *)
(***************************************************************************)
\* Number of HTTP requests the clients send.
MaxReq == 2
\* Widest and tallest downloaded image of the resize specification.
MaxWidth == 285
MaxHeight == 145

Reqs == 1..MaxReq

(***************************************************************************)
(* The outside world: the country-metadata service, the time service, the  *)
(* flag image host and the time-zone table of pytz.  They are not part of  *)
(* the program; every answer they can give is a choice of the environment. *)
(***************************************************************************)
\* The same country under two spellings of the path parameter.
KnownCodes == {"ES", "es"}
Codes == KnownCodes \cup {"ZZ"}

Absent == "<absent>"

\* First element of a successful answer of restcountries.com.  The service
\* is free to change its data between two calls, so a call for a known
\* code may see any of these.  "XK" is an alternate spelling the time-zone
\* table has no row for.
CountryEntries ==
    { [common |-> "Spain", official |-> "Kingdom of Spain",
       nativeName |-> "Espana", languages |-> "Spanish",
       alt |-> "ES", png |-> "flagcdn.com/es.png"],
      [common |-> "France", official |-> "French Republic",
       nativeName |-> "France", languages |-> "French",
       alt |-> "FR", png |-> "flagcdn.com/fr.png"],
      [common |-> "Kosovo", official |-> "Republic of Kosovo",
       nativeName |-> "Kosova", languages |-> "Albanian",
       alt |-> "XK", png |-> "flagcdn.com/xk.png"] }

\* An element that lacks the fields the code indexes.
SparseEntry ==
    [common |-> Absent, official |-> Absent, nativeName |-> Absent,
     languages |-> Absent, alt |-> Absent, png |-> Absent]

\* An HTTP exchange: net = FALSE when requests.get itself raises (host
\* unreachable); otherwise a status and a body that is a JSON list, a JSON
\* object or not JSON at all.
Found(e)    == [net |-> TRUE, status |-> 200, type |-> "list", entry |-> e]
NotFound    == [net |-> TRUE, status |-> 404, type |-> "dict", entry |-> SparseEntry]
Unavailable == [net |-> TRUE, status |-> 503, type |-> "text", entry |-> SparseEntry]
Unreachable == [net |-> FALSE, status |-> 0, type |-> "text", entry |-> SparseEntry]

CountryApi(code) ==
    IF code \in KnownCodes
    THEN {Found(e) : e \in CountryEntries \cup {SparseEntry}}
         \cup {Unavailable, Unreachable}
    ELSE {NotFound, Unavailable, Unreachable}

\* pytz.country_timezones: the zones of a two-letter code, in table order.
TimeZoneTable ==
    [ES |-> <<"Europe/Madrid", "Africa/Ceuta", "Atlantic/Canary">>,
     FR |-> <<"Europe/Paris">>]

\* worldtimeapi.org: the current time of a zone, an error object without a
\* "datetime" member (404), a non-JSON error page, or no answer at all.
TimeOk      == [net |-> TRUE, status |-> 200, type |-> "dict",
                datetime |-> "2023-08-01T12:34:56"]
TimeUnknown == [net |-> TRUE, status |-> 404, type |-> "dict", datetime |-> Absent]
TimeDown    == [net |-> TRUE, status |-> 503, type |-> "text", datetime |-> Absent]
TimeUnreachable == [net |-> FALSE, status |-> 0, type |-> "text", datetime |-> Absent]

TimeApi(zone) == {TimeOk, TimeUnknown, TimeDown, TimeUnreachable}

\* An image is its size <<width, height>>; NoImage stands for bytes that
\* are not an image, and for "no file" in the public directory.
NoImage == <<0, 0>>
ImageSizes == {<<500, 250>>, <<282, 141>>, <<100, 50>>, <<600, 2>>}

ImageOk(img)     == [net |-> TRUE, status |-> 200, image |-> img]
ImageMissing     == [net |-> TRUE, status |-> 404, image |-> NoImage]
ImageUnreachable == [net |-> FALSE, status |-> 0, image |-> NoImage]

ImageApi(url) ==
    {ImageOk(i) : i \in ImageSizes \cup {NoImage}}
    \cup {ImageMissing, ImageUnreachable}

\* Whether the upstream failed to give the answer the caller asked for.
CountryFailed(resp) ==
    ~resp.net \/ resp.status # 200 \/ resp.type # "list" \/ resp.entry = SparseEntry

ImageFailed(resp) == ~resp.net \/ resp.status # 200 \/ resp.image = NoImage

TimeFailed(resp) == ~resp.net \/ resp.type # "dict" \/ resp.datetime = Absent

(***************************************************************************)
(* The helper functions of main.py.  Each returns [raise, val]: raise is   *)
(* TRUE when the Python code leaves by an exception.                       *)
(***************************************************************************)
Upper(code) == IF code = "es" THEN "ES" ELSE code

NoDetails ==
    [country_code |-> Absent, iso_2_letter_code |-> Absent, common_name |-> Absent,
     official_name |-> Absent, native_names |-> Absent, local_languages |-> Absent,
     time_zones |-> <<>>]

get_country_details(country_code, response) ==
    IF ~response.net THEN [raise |-> TRUE, val |-> NoDetails]
    ELSE IF response.status # 200 THEN [raise |-> TRUE, val |-> NoDetails]
    ELSE IF response.type # "list" THEN [raise |-> TRUE, val |-> NoDetails]
    ELSE LET e == response.entry IN
         IF Absent \in {e.common, e.official, e.nativeName, e.languages, e.alt}
         THEN [raise |-> TRUE, val |-> NoDetails]
         ELSE IF e.alt \notin DOMAIN TimeZoneTable
         THEN [raise |-> TRUE, val |-> NoDetails]
         ELSE [raise |-> FALSE,
               val |-> [country_code |-> Upper(country_code),
                        iso_2_letter_code |-> e.alt,
                        common_name |-> e.common,
                        official_name |-> e.official,
                        native_names |-> e.nativeName,
                        local_languages |-> e.languages,
                        time_zones |-> TimeZoneTable[e.alt]]]

NoTime == (Absent :> Absent)

\* get_current_time reading the member with a default (dict.get) instead of
\* indexing: an error answer no longer raises.
get_current_time_lenient(time_zone, response) ==
    IF ~response.net THEN [raise |-> FALSE, val |-> (time_zone :> Absent)]
    ELSE [raise |-> FALSE, val |-> (time_zone :> response.datetime)]

get_current_time(time_zone, response) ==
    IF ~response.net THEN [raise |-> TRUE, val |-> NoTime]
    ELSE IF response.type # "dict" THEN [raise |-> TRUE, val |-> NoTime]
    ELSE IF response.datetime = Absent THEN [raise |-> TRUE, val |-> NoTime]
    ELSE [raise |-> FALSE, val |-> (time_zone :> response.datetime)]

\* get_country_flag, lines 88-91: the flag URL of the metadata answer.  The
\* status is not looked at; an error object has no element 0.
flag_meta(response) ==
    IF ~response.net THEN [raise |-> TRUE, val |-> Absent]
    ELSE IF response.type # "list" THEN [raise |-> TRUE, val |-> Absent]
    ELSE IF response.entry.png = Absent THEN [raise |-> TRUE, val |-> Absent]
    ELSE [raise |-> FALSE, val |-> response.entry.png]

\* get_country_flag, lines 92-93: the download and raise_for_status.
response_img(response) ==
    IF ~response.net THEN [raise |-> TRUE, val |-> NoImage]
    ELSE IF response.status >= 400 THEN [raise |-> TRUE, val |-> NoImage]
    ELSE [raise |-> FALSE, val |-> response.image]

\* get_country_flag, lines 95-99: Image.open fails on bytes that are no
\* image, Image.resize on a height below 1.
resized_img(img) ==
    IF img = NoImage THEN [raise |-> TRUE, val |-> NoImage]
    ELSE LET height == new_height(img) IN
         IF height < 1 THEN [raise |-> TRUE, val |-> NoImage]
         ELSE [raise |-> FALSE, val |-> <<max_width, height>>]

\* A fresh file name for every save.
output_path_unique(country_code) ==
    "public/" \o country_code \o "_flag_250_" \o ToString(Len(saves)) \o ".png"

output_path(country_code) == "public/" \o country_code \o "_flag_250.png"

\* A save that refuses to replace an existing file.
save_exclusive(fs, path, img) == IF path \in DOMAIN fs THEN fs ELSE (path :> img) @@ fs

\* resized_img.save(output_path): the file is created or overwritten.
save(fs, path, img) == (path :> img) @@ fs

\* An error path that removes the output file.
files_after_raise_cleanup(fs, path) == [p \in DOMAIN fs \ {path} |-> fs[p]]

\* An exception before line 102 reaches no statement that touches public/.
files_after_raise(fs, path) == fs

read_root_reworded == [health_check |-> "OK"]

read_root == [health_check |-> "Hello there!"]

\* A handler that catches the exception and returns it as an ordinary body.
on_exception_swallowed == [status |-> 200, body |-> [detail |-> "Country not found"]]

\* No handler catches anything: FastAPI answers an unhandled exception
\* with status 500.
on_exception == [status |-> 500, body |-> [detail |-> "Internal Server Error"]]

\* The zones taken from the first lookup.
country_local_times_first(country_data, second) == country_data.time_zones

\* country_details, line 146: the zones come from the second lookup.
country_local_times(country_data, second) == second.time_zones

\* The comprehension walking the zones from the end.
next_zone_reversed(zones, current_times) == zones[Len(zones) - Len(current_times)]

\* country_details, line 147: the comprehension walks the zones in order.
next_zone(zones, current_times) == zones[Len(current_times) + 1]

\* country_details, lines 149-155.
details_body(country_data, current_times) ==
    [common_name |-> country_data.common_name,
     official_name |-> country_data.official_name,
     native_name |-> country_data.native_names,
     local_languagues |-> country_data.local_languages,
     current_times |-> current_times]

(***************************************************************************)
(* Initial state and the handlers.                                         *)
(***************************************************************************)
Kinds == {"health", "details", "flags"}

NoResp == [status |-> 0, body |-> [pending |-> TRUE]]
NoReq  == [kind |-> "none", code |-> Absent, st |-> "none", resp |-> NoResp]

NoLoc ==
    [country_data |-> NoDetails, country_local_times |-> <<>>,
     current_times |-> <<>>, flag_meta |-> Absent, img |-> NoImage,
     resized_img |-> NoImage]

NoFiles == [p \in {} |-> NoImage]

Init ==
    /\ req = [r \in Reqs |-> NoReq]
    /\ cur = 0
    /\ pc = "idle"
    /\ loc = NoLoc
    /\ calls = <<>>
    /\ files = NoFiles
    /\ saves = <<>>

\* A record of one outbound call: the service, its argument, whether the
\* service failed to answer properly, and how the helper that made the call
\* returned.
Call(api, arg, failed, res) ==
    [api |-> api, arg |-> arg, failed |-> failed, raise |-> res.raise, val |-> res.val]

\* The handler of r returns resp (or leaves by an exception answered with
\* resp): the response goes out and the event loop is free again.
Finish(r, resp) ==
    /\ req' = [req EXCEPT ![r].st = "done", ![r].resp = resp]
    /\ pc' = "idle"
    /\ loc' = NoLoc

\* A client sends a request; requests are numbered as they arrive.
Arrive(r, kind, code) ==
    /\ req[r].st = "none"
    /\ IF r = 1 THEN TRUE ELSE req[r - 1].st # "none"
    /\ req' = [req EXCEPT ![r] = [kind |-> kind,
                                  code |-> IF kind = "health" THEN Absent ELSE code,
                                  st |-> "pending", resp |-> NoResp]]
    /\ UNCHANGED <<cur, pc, loc, calls, files, saves>>

\* The handlers are coroutines that never await (their HTTP calls block),
\* and uvicorn.run starts one event loop: a handler starts only when no
\* other handler is between its first and its last statement.
CanStart(r, kind) == pc = "idle" /\ req[r].st = "pending" /\ req[r].kind = kind

Running(r, at) == cur = r /\ pc = at /\ req[r].st = "running"

\* GET /
Health(r) ==
    /\ CanStart(r, "health")
    /\ req' = [req EXCEPT ![r].st = "done",
                          ![r].resp = [status |-> 200, body |-> read_root]]
    /\ UNCHANGED <<cur, pc, loc, calls, files, saves>>

\* GET /countries/details/{country_code}, line 145
DetailsMeta1(r) ==
    /\ CanStart(r, "details")
    /\ \E response \in CountryApi(req[r].code) :
         LET res == get_country_details(req[r].code, response) IN
         /\ calls' = <<Call("country", req[r].code, CountryFailed(response), res)>>
         /\ IF res.raise THEN Finish(r, on_exception)
            ELSE /\ req' = [req EXCEPT ![r].st = "running"]
                 /\ pc' = "meta2"
                 /\ loc' = [NoLoc EXCEPT !.country_data = res.val]
    /\ cur' = r
    /\ UNCHANGED <<files, saves>>

\* line 146
DetailsMeta2(r) ==
    /\ Running(r, "meta2")
    /\ \E response \in CountryApi(req[r].code) :
         LET res == get_country_details(req[r].code, response) IN
         /\ calls' = Append(calls, Call("country", req[r].code,
                                        CountryFailed(response), res))
         /\ IF res.raise THEN Finish(r, on_exception)
            ELSE /\ pc' = "times"
                 /\ loc' = [loc EXCEPT !.country_local_times =
                                       country_local_times(loc.country_data, res.val)]
                 /\ UNCHANGED req
    /\ UNCHANGED <<cur, files, saves>>

\* line 147, one turn of the comprehension
DetailsTime(r) ==
    /\ Running(r, "times")
    /\ Len(loc.current_times) < Len(loc.country_local_times)
    /\ LET timezone == next_zone(loc.country_local_times, loc.current_times) IN
       \E response \in TimeApi(timezone) :
         LET res == get_current_time(timezone, response) IN
         /\ calls' = Append(calls, Call("time", timezone, TimeFailed(response), res))
         /\ IF res.raise THEN Finish(r, on_exception)
            ELSE /\ loc' = [loc EXCEPT !.current_times = Append(@, res.val)]
                 /\ UNCHANGED <<req, pc>>
    /\ UNCHANGED <<cur, files, saves>>

\* lines 149-155
DetailsReturn(r) ==
    /\ Running(r, "times")
    /\ Len(loc.current_times) = Len(loc.country_local_times)
    /\ Finish(r, [status |-> 200,
                  body |-> details_body(loc.country_data, loc.current_times)])
    /\ UNCHANGED <<cur, calls, files, saves>>

\* GET /countries/flags/{country_code}, lines 88-91
FlagMeta(r) ==
    /\ CanStart(r, "flags")
    /\ \E response \in CountryApi(req[r].code) :
         LET res == flag_meta(response) IN
         /\ calls' = <<Call("country", req[r].code, CountryFailed(response), res)>>
         /\ IF res.raise
            THEN /\ Finish(r, on_exception)
                 /\ files' = files_after_raise(files, output_path(req[r].code))
            ELSE /\ req' = [req EXCEPT ![r].st = "running"]
                 /\ pc' = "download"
                 /\ loc' = [NoLoc EXCEPT !.flag_meta = res.val]
                 /\ UNCHANGED files
    /\ cur' = r
    /\ UNCHANGED saves

\* lines 92-93
FlagDownload(r) ==
    /\ Running(r, "download")
    /\ \E response \in ImageApi(loc.flag_meta) :
         LET res == response_img(response) IN
         /\ calls' = Append(calls, Call("image", loc.flag_meta,
                                        ImageFailed(response), res))
         /\ IF res.raise
            THEN /\ Finish(r, on_exception)
                 /\ files' = files_after_raise(files, output_path(req[r].code))
            ELSE /\ pc' = "resize"
                 /\ loc' = [loc EXCEPT !.img = res.val]
                 /\ UNCHANGED <<req, files>>
    /\ UNCHANGED <<cur, saves>>

\* lines 95-99
FlagResize(r) ==
    /\ Running(r, "resize")
    /\ LET res == resized_img(loc.img) IN
         IF res.raise
         THEN /\ Finish(r, on_exception)
              /\ files' = files_after_raise(files, output_path(req[r].code))
         ELSE /\ pc' = "save"
              /\ loc' = [loc EXCEPT !.resized_img = res.val]
              /\ UNCHANGED <<req, files>>
    /\ UNCHANGED <<cur, calls, saves>>

\* lines 101-107
FlagSave(r) ==
    /\ Running(r, "save")
    /\ LET path == output_path(req[r].code) IN
       /\ files' = save(files, path, loc.resized_img)
       /\ saves' = Append(saves, [req |-> r, code |-> req[r].code, path |-> path,
                                  src |-> loc.img, img |-> loc.resized_img])
       /\ Finish(r, [status |-> 200,
                     body |-> [output_path |-> path,
                               image_size |-> loc.resized_img]])
    /\ UNCHANGED <<cur, calls>>

Next ==
    \/ \E r \in Reqs, kind \in Kinds, code \in Codes : Arrive(r, kind, code)
    \/ \E r \in Reqs : Health(r)
    \/ \E r \in Reqs : DetailsMeta1(r)
    \/ \E r \in Reqs : DetailsMeta2(r)
    \/ \E r \in Reqs : DetailsTime(r)
    \/ \E r \in Reqs : DetailsReturn(r)
    \/ \E r \in Reqs : FlagMeta(r)
    \/ \E r \in Reqs : FlagDownload(r)
    \/ \E r \in Reqs : FlagResize(r)
    \/ \E r \in Reqs : FlagSave(r)

Spec == Init /\ [][Next]_vars

(***************************************************************************)
(* The resize on its own: the flag handler just after the download of an   *)
(* image of any size wider than max_width, then lines 95-107.              *)
(***************************************************************************)
WideImages == {<<w, h>> : w \in (max_width + 1)..MaxWidth, h \in 1..MaxHeight}

InitResize ==
    /\ req = [r \in Reqs |-> IF r = 1
                              THEN [kind |-> "flags", code |-> "ES",
                                    st |-> "running", resp |-> NoResp]
                              ELSE NoReq]
    /\ cur = 1
    /\ pc = "resize"
    /\ \E img \in WideImages :
         /\ loc = [NoLoc EXCEPT !.flag_meta = "flagcdn.com/es.png", !.img = img]
         /\ calls = <<Call("country", "ES", FALSE,
                           [raise |-> FALSE, val |-> "flagcdn.com/es.png"]),
                      Call("image", "flagcdn.com/es.png", FALSE,
                           [raise |-> FALSE, val |-> img])>>
    /\ files = NoFiles
    /\ saves = <<>>

NextResize ==
    \/ \E r \in Reqs : FlagResize(r)
    \/ \E r \in Reqs : FlagSave(r)

SpecResize == InitResize /\ [][NextResize]_vars

(***************************************************************************)
(* Properties.                                                             *)
(***************************************************************************)
Done(r) == req[r].st = "done"

Answered(r, kind) == req[r].kind = kind /\ Done(r)

\* The request whose calls are in `calls`, when it is of the given kind.
Current(kind) == cur \in Reqs /\ req[cur].kind = kind

\* C1: every answer to GET / is status 200 with the body
\* {"health_check": "Hello there!"}, whatever the upstreams did to earlier
\* requests, and the step that answers it makes no outbound call and
\* writes no file.
C1_HealthAlwaysOk ==
    /\ [](\A r \in Reqs :
            Answered(r, "health") =>
                req[r].resp = [status |-> 200,
                               body |-> [health_check |-> "Hello there!"]])
    /\ [][\A r \in Reqs :
            (req[r].kind = "health" /\ ~Done(r) /\ req'[r].st = "done") =>
                (calls' = calls /\ files' = files /\ saves' = saves)]_vars

\* GET / answered after an earlier request ended in a server error on a
\* failed upstream call.
C1_Witness ==
    \E r, q \in Reqs :
        /\ q < r /\ Answered(r, "health") /\ req[r].resp.status = 200
        /\ Done(q) /\ req[q].resp.status = 500
        /\ cur = q /\ calls # <<>> /\ calls[Len(calls)].failed

\* C2: a details or flag request for a code the metadata service does not
\* know is answered, at its first upstream call, with an error status: it
\* is never answered 200 and its handler never goes on past that call.
C2_UnknownCodeIsError ==
    \A r \in Reqs :
        (req[r].kind \in {"details", "flags"} /\ req[r].code \notin KnownCodes) =>
            /\ req[r].st # "running"
            /\ Done(r) => (req[r].resp.status >= 400 /\ req[r].resp.status # 200)

\* Both endpoints have answered a request for the unknown code, the last of
\* them on the service's 404 error object.
C2_Witness ==
    \E r, q \in Reqs :
        /\ Answered(r, "details") /\ req[r].code = "ZZ"
        /\ Answered(q, "flags") /\ req[q].code = "ZZ"
        /\ Len(calls) = 1 /\ calls[1].failed /\ calls[1].raise

\* C3: in a 200 details response, current_time(s) has one single-entry
\* mapping per zone of the time_zones list the table lookup returned, the
\* i-th keyed by the i-th zone.
C3_TimesFollowZones ==
    (Current("details") /\ Done(cur) /\ req[cur].resp.status = 200) =>
        LET zones == calls[2].val.time_zones
            times == req[cur].resp.body.current_times
        IN  /\ Len(times) = Len(zones)
            /\ \A i \in 1..Len(zones) : DOMAIN times[i] = {zones[i]}

\* A 200 details response for a country of three zones.
C3_Witness ==
    /\ Current("details") /\ Done(cur) /\ req[cur].resp.status = 200
    /\ Len(req[cur].resp.body.current_times) = 3
    /\ Len(calls[2].val.time_zones) = 3

\* C4: every image saved from a download of width W > 250 and height H has
\* width 250 and height floor(H * 250 / W).
C4_ExactHeight ==
    \A i \in DOMAIN saves :
        saves[i].src[1] > 250 =>
            saves[i].img = <<250, (saves[i].src[2] * 250) \div saves[i].src[1]>>

\* C5: the saved image is 250 wide when the download is wider than 250 and
\* keeps the download's width otherwise.
C5_WidthNotEnlarged ==
    \A i \in DOMAIN saves :
        saves[i].img[1] = IF saves[i].src[1] > 250 THEN 250 ELSE saves[i].src[1]

\* C6: two successful flag requests for the same code that downloaded the
\* same image return the same output_path and image_size and leave the
\* same image in the same file; saving again adds no file.
C6_SameFlagTwice ==
    /\ \A i, j \in DOMAIN saves :
         (i < j /\ saves[i].code = saves[j].code /\ saves[i].src = saves[j].src) =>
            /\ saves[i].path = saves[j].path
            /\ saves[i].img = saves[j].img
            /\ Done(saves[j].req) =>
                 req[saves[i].req].resp.body = req[saves[j].req].resp.body
    /\ Cardinality(DOMAIN files) = Cardinality({saves[i].code : i \in DOMAIN saves})

\* The same code requested twice with the same download, one file on disk.
C6_Witness ==
    /\ Len(saves) = 2
    /\ saves[1].code = saves[2].code /\ saves[1].src = saves[2].src
    /\ saves[1].req # saves[2].req
    /\ Done(saves[2].req)
    /\ Cardinality(DOMAIN files) = 1

\* The last save to a path.
LastSave(path) ==
    LET at == {i \in DOMAIN saves : saves[i].path = path}
    IN  saves[CHOOSE i \in at : \A j \in at : j <= i]

\* C8: every file of public/ holds the image of the last save to its path,
\* however the requests overlapped, and every answered flag request
\* carries the path and the size of its own save.
C8_LastWriteWins ==
    /\ DOMAIN files = {saves[i].path : i \in DOMAIN saves}
    /\ \A path \in DOMAIN files : files[path] = LastSave(path).img
    /\ \A i \in DOMAIN saves :
         Done(saves[i].req) =>
            req[saves[i].req].resp =
                [status |-> 200,
                 body |-> [output_path |-> "public/" \o saves[i].code \o "_flag_250.png",
                           image_size |-> saves[i].img]]

\* Request 1 was still waiting while request 2, for the same code, was
\* handled; both saved different images and the file holds the later one.
C8_Witness ==
    /\ Len(saves) = 2
    /\ saves[1].req = 2 /\ saves[2].req = 1
    /\ saves[1].code = saves[2].code
    /\ saves[1].img # saves[2].img
    /\ Done(1) /\ Done(2)
    /\ files[saves[2].path] = saves[2].img

\* C7: in a details request a failed upstream call is the last call of the
\* request and ends it with the server error: nothing is called after it
\* (no retry, no later zone) and no 200 body is returned.
C7_FailureEndsDetails ==
    Current("details") =>
        \A i \in DOMAIN calls :
            calls[i].failed =>
                /\ i = Len(calls)
                /\ Done(cur)
                /\ req[cur].resp = [status |-> 500,
                                    body |-> [detail |-> "Internal Server Error"]]

\* The lookup of the second of three zones failed: four calls, no fifth.
C7_Witness ==
    /\ Current("details") /\ Done(cur)
    /\ Len(calls) = 4
    /\ Len(calls[2].val.time_zones) = 3
    /\ calls[4].api = "time" /\ calls[4].failed
    /\ req[cur].resp.status = 500

\* C9: the calls of a details request are two metadata calls and then the
\* time lookups, each made only after every earlier call returned
\* normally; a 200 response made exactly one lookup per zone of the second
\* metadata call's zone list, in its order, and carries the names of the
\* first metadata call.
C9_CallSequence ==
    Current("details") =>
        /\ \A i \in DOMAIN calls :
             /\ calls[i].api = (IF i <= 2 THEN "country" ELSE "time")
             /\ \A j \in 1..(i - 1) : ~calls[j].raise
             /\ i > 2 => (/\ i - 2 <= Len(calls[2].val.time_zones)
                          /\ calls[i].arg = calls[2].val.time_zones[i - 2])
        /\ (Done(cur) /\ req[cur].resp.status = 200) =>
             /\ Len(calls) = 2 + Len(calls[2].val.time_zones)
             /\ req[cur].resp.body.common_name = calls[1].val.common_name
             /\ req[cur].resp.body.official_name = calls[1].val.official_name
             /\ req[cur].resp.body.native_name = calls[1].val.native_names
             /\ req[cur].resp.body.local_languagues = calls[1].val.local_languages

\* A 200 response whose two metadata calls saw different data: three zones
\* from the second, the name from the first.
C9_Witness ==
    /\ Current("details") /\ Done(cur) /\ req[cur].resp.status = 200
    /\ Len(calls) = 5
    /\ calls[1].val.common_name # calls[2].val.common_name
    /\ calls[1].val.time_zones # calls[2].val.time_zones

\* C10: the step that ends a flag request with an error leaves public/
\* exactly as it was.
C10_FailedFlagKeepsFiles ==
    [][\A r \in Reqs :
         (req[r].kind = "flags" /\ ~Done(r) /\ req'[r].st = "done"
          /\ req'[r].resp.status # 200) => files' = files]_vars

\* A flag request failed at the download or the decoding while the file of
\* an earlier request for the same code exists.
C10_Witness ==
    /\ Current("flags") /\ Done(cur) /\ req[cur].resp.status = 500
    /\ Len(calls) = 2
    /\ Len(saves) = 1 /\ saves[1].code = req[cur].code /\ saves[1].req # cur
    /\ files[saves[1].path] = saves[1].img

====
